---- MODULE Spec2Model ----
(***************************************************************************)
(* paperman: `add` moves a file into a repository directory and leaves a   *)
(* relative symlink at the original location (src/main.rs).                *)
(*                                                                         *)
(* Paths are sequences of components, as std::path compares them: the      *)
(* first component of an absolute path is its root ("/"), ".." is the      *)
(* parent-directory component, everything else is a normal name.  A        *)
(* trailing slash does not add a component.  The filesystem is a function  *)
(* from the physical (symlink-free) absolute paths of the entries that     *)
(* exist to those entries.  The paths given to add are absolute (a         *)
(* relative argument is the same path below the current directory).        *)
(* orig, prev and linked record what add's calls found and did; the code   *)
(* does not keep them.                                                     *)
(***************************************************************************)
EXTENDS Naturals, Sequences, FiniteSets, TLC

VARIABLES
    fs,          \* the filesystem: physical path -> entry
    files,       \* add's argument `files`
    idx,         \* position of the `for fp in files` loop (1-based)
    pc,          \* add's position
    ftype,       \* result of file_type(&fp) for the input being handled
    from,        \* `fp`/`from`: the canonicalized input (line 75-76)
    to,          \* `to` (line 77)
    src,         \* `src` (line 81)
    rename_ok,   \* the discarded Result of fs::rename (line 79)
    symlink_ok,  \* the discarded Result of symlink (line 83)
    failed,      \* `failed`: the (path, reason) pairs pushed so far
    reported,    \* what add wrote to stderr: one element per diagnostic
    orig,        \* the entry at `from` when rename was called
    prev,        \* the entry at `to` when rename was called
    linked,      \* the symlinks add created: [loc, dest, target]
    repo_dir,    \* config.repo_dir
    rp_in,       \* relative_path_from: the arguments <<base, target>>
    rp_base,     \* relative_path_from: `base` (canonical, popped by the loop)
    rp_target,   \* relative_path_from: `target` (canonical)
    rp_count,    \* relative_path_from: `count`
    rp_pc,       \* relative_path_from: position
    rp_result,   \* relative_path_from: the returned path
    et_path,     \* expand_tilde: the argument
    et_home,     \* dirs::home_dir() as an Option
    et_pc,       \* expand_tilde: position
    et_result    \* expand_tilde: the returned Option<PathBuf>

add_vars == <<repo_dir, files, idx, pc, ftype, from, to, src, rename_ok, symlink_ok,
              failed, reported, orig, prev, linked>>
rp_vars == <<rp_in, rp_base, rp_target, rp_count, rp_pc, rp_result>>
et_vars == <<et_path, et_home, et_pc, et_result>>
vars == <<fs, add_vars, rp_vars, et_vars>>

----------------------------------------------------------------------------
(* Bounds of the model.                                                    *)

\* longest batch of inputs given to add
MaxBatch == 3
\* how many symlinks one path resolution follows before it fails (ELOOP)
MaxFollow == 4
\* deepest path given to relative_path_from in SpecRel
MaxDepth == 2
\* longest path given to expand_tilde in SpecTilde
MaxLen == 3

----------------------------------------------------------------------------
(* std::path: Path / PathBuf on component sequences.                       *)

Roots == {"/", "X:/"}

IsAbsolute(p) == Len(p) > 0 /\ p[1] \in Roots

Last(p) == p[Len(p)]

Range(s) == {s[i] : i \in 1..Len(s)}

\* Path::starts_with: whole components only
StartsWith(p, base) ==
    /\ Len(base) <= Len(p)
    /\ SubSeq(p, 1, Len(base)) = base

\* Path::strip_prefix, for a prefix that StartsWith accepts
StripPrefix(p, base) == SubSeq(p, Len(base) + 1, Len(p))

\* Path::parent is Some: not for the empty path, not for a bare root
HasParent(p) == Len(p) > 1 \/ (Len(p) = 1 /\ p[1] \notin Roots)

Parent(p) == SubSeq(p, 1, Len(p) - 1)

\* Pop as it would be if the buffer's root could be popped too: pop always
\* reports success
PopAlways(p) ==
    [ok |-> TRUE, path |-> IF HasParent(p) THEN Parent(p) ELSE p]

\* PathBuf::pop: [ok |-> what pop returns, path |-> the buffer afterwards]
Pop(p) ==
    IF HasParent(p) THEN [ok |-> TRUE, path |-> Parent(p)]
    ELSE [ok |-> FALSE, path |-> p]

\* PathBuf::push / Path::join: an absolute argument replaces the path
Push(p, q) == IF IsAbsolute(q) THEN q ELSE p \o q

\* Path::file_name: None for a path that ends in a root or in ".."
HasFileName(p) == Len(p) > 0 /\ Last(p) \notin Roots /\ Last(p) # ".."

----------------------------------------------------------------------------
(* The filesystem and the system calls add makes.                          *)

NoPath == <<>>
Absent == [kind |-> "none", data |-> "", target |-> <<>>]
DirE == [kind |-> "dir", data |-> "", target |-> <<>>]
FileE(d) == [kind |-> "file", data |-> d, target |-> <<>>]
LinkE(t) == [kind |-> "link", data |-> "", target |-> t]

Entry(f, p) == IF p \in DOMAIN f THEN f[p] ELSE Absent

Ok(p) == [ok |-> TRUE, path |-> p, err |-> ""]
Fail(e) == [ok |-> FALSE, path |-> NoPath, err |-> e]

\* Path resolution as the kernel does it: `cur` is the physical directory
\* reached so far, `rest` the components still to resolve, `fuel` the
\* symlinks that may still be followed.
RECURSIVE Walk(_, _, _, _)
Walk(f, cur, rest, fuel) ==
    IF rest = <<>> THEN Ok(cur)
    ELSE IF Entry(f, cur).kind # "dir" THEN Fail("ENOTDIR")
    ELSE LET c == Head(rest)
             nxt == Append(cur, c)
         IN IF c = ".."
            THEN Walk(f, IF Len(cur) > 1 THEN Parent(cur) ELSE cur, Tail(rest), fuel)
            ELSE IF nxt \notin DOMAIN f THEN Fail("ENOENT")
            ELSE IF f[nxt].kind # "link" THEN Walk(f, nxt, Tail(rest), fuel)
            ELSE IF fuel = 0 THEN Fail("ELOOP")
            ELSE LET t == f[nxt].target
                 IN IF IsAbsolute(t)
                    THEN Walk(f, <<t[1]>>, Tail(t) \o Tail(rest), fuel - 1)
                    ELSE Walk(f, cur, t \o Tail(rest), fuel - 1)

\* fs::canonicalize (realpath): every symlink followed, the entry must exist
Canonicalize(f, p) ==
    IF ~IsAbsolute(p) \/ <<p[1]>> \notin DOMAIN f THEN Fail("ENOENT")
    ELSE Walk(f, <<p[1]>>, Tail(p), MaxFollow)

\* The physical path a call that does not follow the final component acts
\* on (lstat, rename, symlink, mkdir): the parent is resolved, the last
\* component is taken as it is.
LResolve(f, p) ==
    IF ~IsAbsolute(p) THEN Fail("ENOENT")
    ELSE IF Len(p) = 1 THEN Canonicalize(f, p)
    ELSE LET d == Canonicalize(f, Parent(p))
         IN IF ~d.ok THEN d
            ELSE IF f[d.path].kind # "dir" THEN Fail("ENOTDIR")
            ELSE Ok(Append(d.path, Last(p)))

\* Path::symlink_metadata (lstat): the entry itself, Absent on failure
SymlinkMetadata(f, p) ==
    LET r == LResolve(f, p)
    IN IF r.ok THEN Entry(f, r.path) ELSE Absent

\* Path::is_dir (stat): follows symlinks
IsDir(f, p) ==
    LET r == Canonicalize(f, p)
    IN r.ok /\ f[r.path].kind = "dir"

\* what the path resolves to through every symlink, Absent on failure
Stat(f, p) ==
    LET r == Canonicalize(f, p)
    IN IF r.ok THEN f[r.path] ELSE Absent

FsOk(f) == [ok |-> TRUE, fs |-> f, err |-> ""]
FsFail(f, e) == [ok |-> FALSE, fs |-> f, err |-> e]

\* mkdir(2)
Mkdir(f, p) ==
    LET r == LResolve(f, p)
    IN IF ~r.ok THEN FsFail(f, r.err)
       ELSE IF r.path \in DOMAIN f THEN FsFail(f, "EEXIST")
       ELSE FsOk(f @@ (r.path :> DirE))

\* fs::create_dir_all: mkdir, and on NotFound the parent first
RECURSIVE CreateDirAll(_, _)
CreateDirAll(f, p) ==
    IF p = <<>> THEN FsOk(f)
    ELSE LET m == Mkdir(f, p)
         IN IF m.ok THEN m
            ELSE IF m.err # "ENOENT"
            THEN IF IsDir(f, p) THEN FsOk(f) ELSE m
            ELSE IF ~HasParent(p) THEN m
            ELSE LET up == CreateDirAll(f, Parent(p))
                 IN IF ~up.ok THEN up
                    ELSE LET m2 == Mkdir(up.fs, p)
                         IN IF m2.ok THEN m2
                            ELSE IF IsDir(up.fs, p) THEN FsOk(up.fs)
                            ELSE m2

\* rename(2): replaces a file, a symlink or an empty directory at `new`;
\* a directory moves with everything below it
Rename(f, old, new) ==
    LET ro == LResolve(f, old)
        rn == LResolve(f, new)
    IN IF ~ro.ok THEN FsFail(f, ro.err)
       ELSE IF ~rn.ok THEN FsFail(f, rn.err)
       ELSE IF ro.path \notin DOMAIN f THEN FsFail(f, "ENOENT")
       ELSE LET o == ro.path
                n == rn.path
                below == {p \in DOMAIN f : p # n /\ StartsWith(p, n)}
            IN IF o = n THEN FsOk(f)
               ELSE IF Len(o) = 1 \/ Len(n) = 1 THEN FsFail(f, "EBUSY")
               ELSE IF f[o].kind = "dir" /\ StartsWith(n, o) THEN FsFail(f, "EINVAL")
               ELSE IF f[o].kind = "dir" /\ n \in DOMAIN f /\ f[n].kind # "dir"
               THEN FsFail(f, "ENOTDIR")
               ELSE IF f[o].kind # "dir" /\ n \in DOMAIN f /\ f[n].kind = "dir"
               THEN FsFail(f, "EISDIR")
               ELSE IF below # {} THEN FsFail(f, "ENOTEMPTY")
               ELSE LET keep == {p \in DOMAIN f : ~StartsWith(p, o) /\ p # n}
                        moved == {n \o StripPrefix(p, o) :
                                     p \in {q \in DOMAIN f : StartsWith(q, o)}}
                    IN FsOk([q \in keep \cup moved |->
                               IF q \in keep THEN f[q]
                               ELSE f[o \o StripPrefix(q, n)]])

\* Symlink as it would be if it replaced what is at linkpath (ln -sf)
SymlinkReplace(f, target, linkpath) ==
    LET r == LResolve(f, linkpath)
    IN IF target = <<>> THEN FsFail(f, "ENOENT")
       ELSE IF ~r.ok THEN FsFail(f, r.err)
       ELSE IF Entry(f, r.path).kind = "dir" THEN FsFail(f, "EEXIST")
       ELSE FsOk((r.path :> LinkE(target)) @@ f)

\* std::os::unix::fs::symlink(target, linkpath): never replaces an entry
Symlink(f, target, linkpath) ==
    LET r == LResolve(f, linkpath)
    IN IF target = <<>> THEN FsFail(f, "ENOENT")
       ELSE IF ~r.ok THEN FsFail(f, r.err)
       ELSE IF r.path \in DOMAIN f THEN FsFail(f, "EEXIST")
       ELSE FsOk(f @@ (r.path :> LinkE(target)))

----------------------------------------------------------------------------
(* file_type, relative_path_from, expand_tilde.                            *)

\* file_type: the FileType of the entry itself, "Err" when symlink_metadata
\* fails
FileType(f, p) ==
    LET k == SymlinkMetadata(f, p).kind
    IN IF k = "dir" THEN "Dir"
       ELSE IF k = "file" THEN "File"
       ELSE IF k = "link" THEN "Symlink"
       ELSE "Err"

\* Dots as it would be with the loop `for _ in 1..count`
DotsOneLess(count) == [i \in 1..(IF count > 0 THEN count - 1 ELSE 0) |-> ".."]

\* `count` pushes of ".." onto an empty PathBuf
Dots(count) == [i \in 1..count |-> ".."]

\* Ascend as it would be if the loop did not count the components it pops
RECURSIVE AscendNoCount(_, _, _)
AscendNoCount(base, target, count) ==
    IF StartsWith(target, base)
    THEN Ok(Push(Dots(count), StripPrefix(target, base)))
    ELSE LET b == Pop(base)
         IN IF b.ok THEN AscendNoCount(b.path, target, count)
            ELSE Fail("base cannot be a prefix of target")

\* the loop of relative_path_from and the path it builds afterwards
RECURSIVE Ascend(_, _, _)
Ascend(base, target, count) ==
    IF StartsWith(target, base)
    THEN Ok(Push(Dots(count), StripPrefix(target, base)))
    ELSE LET b == Pop(base)
         IN IF b.ok THEN Ascend(b.path, target, count + 1)
            ELSE Fail("base cannot be a prefix of target")

\* relative_path_from(base, target)
RelativePathFrom(f, base, target) ==
    LET b == Canonicalize(f, base)
        t == Canonicalize(f, target)
    IN IF ~b.ok THEN b
       ELSE IF ~t.ok THEN t
       ELSE Ascend(b.path, t.path, 0)

None == [some |-> FALSE, val |-> NoPath]
Some(p) == [some |-> TRUE, val |-> p]

\* ExpandTilde as it would be if it asked for the home directory first
ExpandTildeHomeFirst(path, home) ==
    IF ~home.some THEN None
    ELSE IF ~StartsWith(path, <<"~">>) THEN Some(path)
    ELSE IF path = <<"~">> THEN home
    ELSE Some(Push(home.val, StripPrefix(path, <<"~">>)))

\* expand_tilde(path), with what dirs::home_dir() returns
ExpandTilde(path, home) ==
    IF ~StartsWith(path, <<"~">>) THEN Some(path)
    ELSE IF path = <<"~">> THEN home
    ELSE IF home.some THEN Some(Push(home.val, StripPrefix(path, <<"~">>)))
    ELSE None

----------------------------------------------------------------------------
(* The inputs: configuration, initial filesystems, batches.                *)

\* config.repo_dir, absolute after read_config
RepoDirs == {<<"/", "repo">>, <<"/", "srv", "repo">>}

Home == <<"/", "home">>
Alice == <<"/", "home", "alice">>
Bob == <<"/", "home", "bob">>
Vimrc(d) == Append(d, ".vimrc")
Lnk == Append(Alice, "lnk")

EmptyFs == [p \in {} |-> Absent]
Opt(p, e) == IF e = Absent THEN EmptyFs ELSE p :> e

BaseFs == (<<"/">> :> DirE) @@ (Home :> DirE) @@ (Alice :> DirE) @@ (Bob :> DirE)
          @@ (Vimrc(Bob) :> FileE("bob"))

\* /home/alice/.vimrc, /home/alice/lnk, the repository directory and the
\* entry of the same base name in it each exist or not, in the kinds that
\* make add's calls succeed and fail
InitFsSet(repo) ==
    {BaseFs @@ Opt(Vimrc(Alice), a) @@ Opt(Lnk, l) @@ Opt(repo, r)
            @@ Opt(Vimrc(repo), rv)
            @@ Opt(Parent(repo), IF r = Absent THEN Absent ELSE DirE) :
        a \in {FileE("alice"), Absent},
        l \in {LinkE(<<".vimrc">>), Absent},
        r \in {DirE, FileE("x"), Absent},
        rv \in {FileE("repo"), DirE, Absent}}

WellFormed(f) ==
    \A p \in DOMAIN f : Len(p) > 1 => Entry(f, Parent(p)).kind = "dir"

Inputs(repo) == {Vimrc(Alice), Vimrc(Bob), Lnk, Home, <<"/">>, Vimrc(repo)}

RECURSIVE SeqsUpTo(_, _)
SeqsUpTo(S, n) ==
    IF n = 0 THEN {<<>>}
    ELSE LET shorter == SeqsUpTo(S, n - 1)
         IN shorter \cup {Append(s, x) : s \in shorter, x \in S}

Batches(repo) == SeqsUpTo(Inputs(repo), MaxBatch)

----------------------------------------------------------------------------
(* add(files, config), one action per statement of the loop body.          *)

IdleRel ==
    /\ rp_in = <<NoPath, NoPath>> /\ rp_base = NoPath /\ rp_target = NoPath
    /\ rp_count = 0 /\ rp_pc = "idle" /\ rp_result = NoPath

IdleTilde ==
    /\ et_path = NoPath /\ et_home = None /\ et_pc = "idle" /\ et_result = None

IdleAdd ==
    /\ repo_dir = NoPath
    /\ files = <<>> /\ idx = 1 /\ pc = "idle" /\ ftype = "none"
    /\ from = NoPath /\ to = NoPath /\ src = NoPath
    /\ rename_ok = "none" /\ symlink_ok = "none"
    /\ failed = <<>> /\ reported = <<>>
    /\ orig = Absent /\ prev = Absent /\ linked = {}

Init ==
    /\ repo_dir \in RepoDirs
    /\ fs \in {f \in InitFsSet(repo_dir) : WellFormed(f)}
    /\ files \in Batches(repo_dir)
    /\ idx = 1 /\ pc = "loop" /\ ftype = "none"
    /\ from = NoPath /\ to = NoPath /\ src = NoPath
    /\ rename_ok = "none" /\ symlink_ok = "none"
    /\ failed = <<>> /\ reported = <<>>
    /\ orig = Absent /\ prev = Absent /\ linked = {}
    /\ IdleRel /\ IdleTilde

Reason(t) ==
    IF t = "Dir" THEN "file is a directory, which cannot be added"
    ELSE "file is a symlink, which cannot be added"

\* line 65-73: match file_type(&fp)?
Classify ==
    /\ pc = "loop" /\ idx <= Len(files)
    /\ LET t == FileType(fs, files[idx])
       IN /\ ftype' = t
          /\ pc' = IF t = "Err" THEN "err" ELSE "canon"
          /\ failed' = IF t \in {"Dir", "Symlink"}
                       THEN Append(failed, <<files[idx], Reason(t)>>)
                       ELSE failed
    /\ rename_ok' = "none" /\ symlink_ok' = "none"
    /\ UNCHANGED <<fs, repo_dir, files, idx, from, to, src, reported, orig, prev, linked>>
    /\ UNCHANGED <<rp_vars, et_vars>>

\* line 75: fs::canonicalize(fp)?
Canon ==
    /\ pc = "canon"
    /\ LET c == Canonicalize(fs, files[idx])
       IN /\ pc' = IF c.ok THEN "dest" ELSE "err"
          /\ from' = IF c.ok THEN c.path ELSE from
    /\ UNCHANGED <<fs, repo_dir, files, idx, ftype, to, src, rename_ok, symlink_ok,
                   failed, reported, orig, prev, linked>>
    /\ UNCHANGED <<rp_vars, et_vars>>

\* line 77: config.repo_dir.join(from.file_name().unwrap())
Dest ==
    /\ pc = "dest"
    /\ pc' = IF HasFileName(from) THEN "mkdir" ELSE "panic"
    /\ to' = IF HasFileName(from) THEN Push(repo_dir, <<Last(from)>>) ELSE to
    /\ UNCHANGED <<fs, repo_dir, files, idx, ftype, from, src, rename_ok, symlink_ok,
                   failed, reported, orig, prev, linked>>
    /\ UNCHANGED <<rp_vars, et_vars>>

\* line 78: fs::create_dir_all(&config.repo_dir).unwrap()
MkRepo ==
    /\ pc = "mkdir"
    /\ LET r == CreateDirAll(fs, repo_dir)
       IN /\ fs' = r.fs
          /\ pc' = IF r.ok THEN "rename" ELSE "panic"
    /\ UNCHANGED <<repo_dir, files, idx, ftype, from, to, src, rename_ok, symlink_ok,
                   failed, reported, orig, prev, linked>>
    /\ UNCHANGED <<rp_vars, et_vars>>

\* line 79: fs::rename(&from, &to); the Result is dropped
RenameStep ==
    /\ pc = "rename"
    /\ LET r == Rename(fs, from, to)
       IN /\ fs' = r.fs
          /\ rename_ok' = IF r.ok THEN "ok" ELSE "err"
    /\ orig' = Entry(fs, from)
    /\ prev' = SymlinkMetadata(fs, to)
    /\ pc' = "relpath"
    /\ UNCHANGED <<repo_dir, files, idx, ftype, from, to, src, symlink_ok,
                   failed, reported, linked>>
    /\ UNCHANGED <<rp_vars, et_vars>>

\* line 81: relative_path_from(&fp.parent().unwrap(), &to)?
RelPath ==
    /\ pc = "relpath"
    /\ LET r == RelativePathFrom(fs, Parent(from), to)
       IN /\ pc' = IF r.ok THEN "symlink" ELSE "err"
          /\ src' = IF r.ok THEN r.path ELSE src
    /\ UNCHANGED <<fs, repo_dir, files, idx, ftype, from, to, rename_ok, symlink_ok,
                   failed, reported, orig, prev, linked>>
    /\ UNCHANGED <<rp_vars, et_vars>>

\* line 82-84: symlink(src, dst); the Result is dropped; next input
SymlinkStep ==
    /\ pc = "symlink"
    /\ LET r == Symlink(fs, src, from)
       IN /\ fs' = r.fs
          /\ symlink_ok' = IF r.ok THEN "ok" ELSE "err"
          /\ linked' = IF r.ok
                       THEN linked \cup {[loc |-> from,
                                          dest |-> Canonicalize(fs, to).path,
                                          target |-> src]}
                       ELSE linked
    /\ idx' = idx + 1
    /\ pc' = "loop"
    /\ UNCHANGED <<repo_dir, files, ftype, from, to, src, rename_ok, failed, reported,
                   orig, prev>>
    /\ UNCHANGED <<rp_vars, et_vars>>

\* line 86-93: the diagnostic for the ignored paths, then Ok(())
Report ==
    /\ pc = "loop" /\ idx > Len(files)
    /\ reported' = IF Len(failed) > 0 THEN Append(reported, failed) ELSE reported
    /\ pc' = "ok"
    /\ UNCHANGED <<fs, repo_dir, files, idx, ftype, from, to, src, rename_ok, symlink_ok,
                   failed, orig, prev, linked>>
    /\ UNCHANGED <<rp_vars, et_vars>>

Next ==
    \/ Classify
    \/ Canon
    \/ Dest
    \/ MkRepo
    \/ RenameStep
    \/ RelPath
    \/ SymlinkStep
    \/ Report

Spec == Init /\ [][Next]_vars

TypeOK ==
    /\ WellFormed(fs)
    /\ pc \in {"loop", "canon", "dest", "mkdir", "rename", "relpath", "symlink",
               "ok", "err", "panic"}
    /\ idx \in 1..(Len(files) + 1)

----------------------------------------------------------------------------
(* relative_path_from(base, target), one action per step of its loop.      *)
(* The second root stands for a second drive: the code's                   *)
(* "base cannot be a prefix of target" branch is taken only when the two   *)
(* canonical paths have no common root.                                    *)

RelNames == {"usr", "bin", "share"}

\* every path of RelNames up to MaxDepth is a directory on both roots, and
\* /usr/lnk is a symlink to bin
RelFs ==
    [p \in {<<r>> \o s : r \in Roots, s \in SeqsUpTo(RelNames, MaxDepth)} |-> DirE]
    @@ (<<"/", "usr", "lnk">> :> LinkE(<<"bin">>))

RelArgs ==
    {<<r>> \o s : r \in Roots, s \in SeqsUpTo(RelNames \cup {"lnk"}, MaxDepth)}

InitRel ==
    /\ fs = RelFs
    /\ rp_in \in RelArgs \X RelArgs
    /\ rp_base = NoPath /\ rp_target = NoPath
    /\ rp_count = 0 /\ rp_pc = "start" /\ rp_result = NoPath
    /\ IdleAdd /\ IdleTilde

\* line 121-124: canonicalize both arguments, count = 0
RelCanon ==
    /\ rp_pc = "start"
    /\ LET b == Canonicalize(fs, rp_in[1])
           t == Canonicalize(fs, rp_in[2])
       IN IF b.ok /\ t.ok
          THEN /\ rp_base' = b.path
               /\ rp_target' = t.path
               /\ rp_pc' = "loop"
          ELSE /\ rp_pc' = "io_err"
               /\ UNCHANGED <<rp_base, rp_target>>
    /\ rp_count' = 0
    /\ UNCHANGED <<fs, add_vars, et_vars, rp_in, rp_result>>

\* line 125-128: target does not start with base, base.pop() succeeds
RelPop ==
    /\ rp_pc = "loop"
    /\ ~StartsWith(rp_target, rp_base)
    /\ Pop(rp_base).ok
    /\ rp_base' = Pop(rp_base).path
    /\ rp_count' = rp_count + 1
    /\ UNCHANGED <<fs, add_vars, et_vars, rp_in, rp_target, rp_pc, rp_result>>

\* line 129-131: base.pop() fails
RelNoAncestor ==
    /\ rp_pc = "loop"
    /\ ~StartsWith(rp_target, rp_base)
    /\ ~Pop(rp_base).ok
    /\ rp_pc' = "nca_err"
    /\ UNCHANGED <<fs, add_vars, et_vars, rp_in, rp_base, rp_target, rp_count,
                   rp_result>>

\* line 134-138: the loop ends, the relative path is built
RelBuild ==
    /\ rp_pc = "loop"
    /\ StartsWith(rp_target, rp_base)
    /\ rp_result' = Push(Dots(rp_count), StripPrefix(rp_target, rp_base))
    /\ rp_pc' = "done"
    /\ UNCHANGED <<fs, add_vars, et_vars, rp_in, rp_base, rp_target, rp_count>>

NextRel ==
    \/ RelCanon
    \/ RelPop
    \/ RelNoAncestor
    \/ RelBuild

SpecRel == InitRel /\ [][NextRel]_vars

\* relative_path_from runs to its return: nothing else is scheduled
SpecRelFair == SpecRel /\ WF_vars(NextRel)

\* the step machine returns what the operator add uses returns
RelAgree ==
    LET r == RelativePathFrom(fs, rp_in[1], rp_in[2])
    IN /\ rp_pc = "done" => r.ok /\ r.path = rp_result
       /\ rp_pc \in {"io_err", "nca_err"} => ~r.ok

----------------------------------------------------------------------------
(* expand_tilde(path).                                                     *)

TildeComps == {"~", "~bob", "foo", "bar"}

\* relative paths of TildeComps, and the same below the root
TildePaths ==
    SeqsUpTo(TildeComps, MaxLen)
    \cup {<<"/">> \o s : s \in SeqsUpTo(TildeComps, MaxLen - 1)}

Homes == {None, Some(<<"/">>), Some(<<"/", "home", "alice">>)}

InitTilde ==
    /\ fs = EmptyFs
    /\ et_path \in TildePaths
    /\ et_home \in Homes
    /\ et_pc = "call" /\ et_result = None
    /\ IdleAdd /\ IdleRel

\* line 28-45
Expand ==
    /\ et_pc = "call"
    /\ et_result' = ExpandTilde(et_path, et_home)
    /\ et_pc' = "done"
    /\ UNCHANGED <<fs, add_vars, rp_vars, et_path, et_home>>

NextTilde == Expand

SpecTilde == InitTilde /\ [][NextTilde]_vars

----------------------------------------------------------------------------
(* Vocabulary of the properties.                                           *)

\* `p` with its ".." components resolved textually
RECURSIVE LexResolve(_, _)
LexResolve(acc, rest) ==
    IF rest = <<>> THEN acc
    ELSE IF Head(rest) = ".."
    THEN LexResolve(IF Len(acc) > 1 THEN Parent(acc) ELSE acc, Tail(rest))
    ELSE LexResolve(Append(acc, Head(rest)), Tail(rest))

\* number of components of the deepest common ancestor of two paths
CommonLen(a, b) ==
    LET m == IF Len(a) < Len(b) THEN Len(a) ELSE Len(b)
        agree == {n \in 0..m : \A i \in 1..n : a[i] = b[i]}
    IN CHOOSE n \in agree : \A k \in agree : k <= n

\* k parent markers, then what of `target` lies below the common ancestor
Expected(base, target) ==
    LET c == CommonLen(base, target)
    IN Dots(Len(base) - c) \o SubSeq(target, c + 1, Len(target))

IsCanonical(f, p) == Canonicalize(f, p) = Ok(p)

\* add has just finished the loop body for files[idx - 1]
Handled == pc = "loop" /\ idx > 1

Skipped(path) == \E i \in 1..Len(failed) : failed[i][1] = path

Aborted == pc \in {"err", "panic"}

----------------------------------------------------------------------------
(* Properties of add.                                                      *)

\* the entries reachable from path `p`: the entry it names, what it resolves
\* to through symlinks, and everything below either
Tree(f, q) == [x \in {y \in DOMAIN f : StartsWith(y, q)} |-> f[x]]
Reachable(f, p) ==
    <<Tree(f, LResolve(f, p).path), Tree(f, Canonicalize(f, p).path)>>

\* C1: while add handles an input it classified as Dir or Symlink, the
\* input is recorded as skipped and no step changes the entries reachable
\* from the input path.
C1Claim ==
    [][(pc' # "idle" /\ ftype' \in {"Dir", "Symlink"})
          => LET fp == files[idx]
             IN /\ Reachable(fs', fp) = Reachable(fs, fp)
                /\ pc' # "loop" => Skipped(fp)']_vars

\* the input of C2, with the symlink target its example names
C2Body(example) ==
    (Handled /\ ftype = "File" /\ rename_ok = "ok" /\ symlink_ok = "ok") =>
        LET fp == files[idx - 1]
            dest == Push(repo_dir, <<Last(fp)>>)
            link == Entry(fs, from)
        IN /\ IsDir(fs, repo_dir)
           /\ to = dest
           /\ orig.kind = "file"
           /\ Entry(fs, dest) = orig
           /\ link.kind = "link"
           /\ link.target = Expected(Parent(from), dest)
           /\ LexResolve(Parent(from), link.target) = dest
           /\ Canonicalize(fs, from) = Ok(dest)
           /\ Stat(fs, fp) = orig
           /\ (from = Vimrc(Alice) /\ repo_dir = <<"/", "repo">>)
                 => link.target = example

\* C2 (as amended): a regular file handled without a failing call is at
\* repo_dir/<base name>, the repository directory exists, and the original
\* canonical location is a symlink whose target is the relative path from
\* the original parent to the destination, so it resolves to the moved
\* file; /home/alice/.vimrc with repository /repo ends as a symlink to
\* ../../repo/.vimrc.
C2Thm == C2Body(<<"..", "..", "repo", ".vimrc">>)

\* C2 as stated: the same, with /home/alice/.vimrc ending as a symlink to
\* ../repo/.vimrc.
C2Orig == C2Body(<<"..", "repo", ".vimrc">>)

C2Witness ==
    /\ Handled /\ ftype = "File" /\ rename_ok = "ok" /\ symlink_ok = "ok"
    /\ files[idx - 1] = Vimrc(Alice) /\ from = Vimrc(Alice)
    /\ repo_dir = <<"/", "repo">>
    /\ Entry(fs, Vimrc(Alice)) = LinkE(<<"..", "..", "repo", ".vimrc">>)
    /\ Entry(fs, <<"/", "repo", ".vimrc">>) = FileE("alice")

\* C3: a failed filesystem call aborts add: after a failed metadata read,
\* rename or symlink add is never at a later step or at a later input
\* (a failed canonicalize or create_dir_all leaves the loop in Canon,
\* RelPath and MkRepo).
C3Claim ==
    (ftype = "Err" \/ rename_ok = "err" \/ symlink_ok = "err") => Aborted

\* C4: add never aborts while handling an input it classified as Dir or
\* Symlink, and when it returns Ok it has written the list of skipped items
\* exactly once if there is one, with one entry per skipped input.
C4Claim ==
    /\ ftype \in {"Dir", "Symlink"} => ~Aborted
    /\ pc = "ok" => reported = IF failed = <<>> THEN <<>> ELSE <<failed>>

\* an input whose location holds a symlink that add created and that still
\* resolves into the repository
ReAdd ==
    /\ pc \in {"canon", "dest", "mkdir", "rename", "relpath", "symlink"}
    /\ ftype = "Symlink"
    /\ \E l \in linked :
          /\ LResolve(fs, files[idx]) = Ok(l.loc)
          /\ Entry(fs, l.loc) = LinkE(l.target)
          /\ Canonicalize(fs, l.loc) = Ok(l.dest)
          /\ StartsWith(l.dest, repo_dir)

\* C7: handling again a path that add already migrated records it as
\* skipped, does not abort, creates no symlink and leaves the filesystem
\* as it was.
C7Thm ==
    [][ReAdd => /\ fs' = fs
                /\ linked' = linked
                /\ ~Aborted'
                /\ Skipped(files[idx])]_vars

C7Witness ==
    /\ Handled /\ ftype = "Symlink"
    /\ rename_ok = "ok" /\ symlink_ok = "err"
    /\ \E l \in linked :
          /\ l.loc = files[idx - 1]
          /\ from = l.dest
          /\ Entry(fs, l.loc) = LinkE(l.target)
          /\ Entry(fs, l.dest).kind = "file"

\* C9: a regular file whose destination already holds another file is moved
\* over it without an error or a skipped-item entry, the destination then
\* holds the input's content, and the symlink add created at the original
\* location of every input moved to that destination resolves to it.
C9Claim ==
    (Handled /\ ftype = "File" /\ prev.kind = "file" /\ from # to) =>
        /\ rename_ok = "ok" /\ symlink_ok = "ok"
        /\ ~Skipped(files[idx - 1])
        /\ Entry(fs, to) = orig
        /\ Canonicalize(fs, from) = Ok(to)
        /\ \A l \in linked :
              l.dest = to => Canonicalize(fs, l.loc) = Ok(to)

\* C10: every symlink add created resolves to an entry that exists in the
\* repository directory.
C10Claim ==
    \A l \in linked :
        /\ SymlinkMetadata(fs, l.loc).kind = "link"
        /\ Canonicalize(fs, l.loc).ok
        /\ StartsWith(Canonicalize(fs, l.loc).path, repo_dir)

----------------------------------------------------------------------------
(* Properties of relative_path_from.                                       *)

\* both arguments are canonical paths of existing entries on one root
CanonicalPair ==
    /\ rp_pc # "idle"
    /\ IsCanonical(fs, rp_in[1]) /\ IsCanonical(fs, rp_in[2])
    /\ rp_in[1][1] = rp_in[2][1]

Returned == rp_pc \in {"done", "io_err", "nca_err"}

\* C5: for canonical base and target on one root the result is k ".."
\* markers, k the number of components of base below the deepest common
\* ancestor, followed by what of target lies below that ancestor; base
\* with the result appended resolves to target; no ".." when base prefixes
\* target; the empty path when base = target.
C5Thm ==
    (CanonicalPair /\ Returned) =>
        LET base == rp_in[1]
            target == rp_in[2]
            c == CommonLen(base, target)
        IN /\ rp_pc = "done"
           /\ rp_result = Dots(Len(base) - c) \o SubSeq(target, c + 1, Len(target))
           /\ LexResolve(base, rp_result) = target
           /\ StartsWith(target, base) => ".." \notin Range(rp_result)
           /\ base = target => rp_result = <<>>
           /\ (base = <<"/", "usr">> /\ target = <<"/", "usr", "share">>)
                 => rp_result = <<"share">>
           /\ (base = <<"/", "usr", "bin">> /\ target = <<"/", "usr", "share">>)
                 => rp_result = <<"..", "share">>

C5Witness ==
    /\ rp_pc = "done"
    /\ rp_in = << <<"/", "usr", "bin">>, <<"/", "usr", "share">> >>
    /\ rp_count = 1
    /\ rp_result = <<"..", "share">>

\* C8: relative_path_from returns; each iteration of its loop either ends
\* the loop because base prefixes target, or removes one component of
\* base, or returns the error because base has no parent; the error is
\* returned only for paths on different roots.
C8Thm ==
    /\ <>Returned
    /\ [][rp_pc = "loop" =>
            \/ rp_pc' = "done" /\ StartsWith(rp_target, rp_base)
            \/ /\ rp_pc' = "loop"
               /\ Len(rp_base') = Len(rp_base) - 1
               /\ rp_count' = rp_count + 1
            \/ /\ rp_pc' = "nca_err"
               /\ ~HasParent(rp_base)
               /\ ~StartsWith(rp_target, rp_base)]_vars
    /\ [](rp_pc = "nca_err" => rp_base[1] # rp_target[1])

C8Witness ==
    /\ rp_pc = "nca_err"
    /\ rp_count >= 1
    /\ rp_base = <<"X:/">>
    /\ rp_target[1] = "/"

----------------------------------------------------------------------------
(* Properties of expand_tilde.                                             *)

\* C6: a path whose first component is not "~" is returned unchanged,
\* whatever the home directory; "~" gives the home directory; "~/rest"
\* gives the home directory joined with rest; the result is absent exactly
\* when the first component is "~" and there is no home directory.
C6Thm ==
    et_pc = "done" =>
        LET tilde == Len(et_path) > 0 /\ et_path[1] = "~"
        IN /\ ~tilde => et_result = Some(et_path)
           /\ et_path = <<"~">> => et_result = et_home
           /\ (tilde /\ Len(et_path) > 1 /\ et_home.some)
                 => et_result = Some(et_home.val \o Tail(et_path))
           /\ ~et_result.some <=> (tilde /\ ~et_home.some)
           /\ (et_path = <<"~bob", "foo", "bar">>)
                 => et_result = Some(<<"~bob", "foo", "bar">>)
           /\ (et_path = <<"~", "foo">> /\ et_home = Some(<<"/">>))
                 => et_result = Some(<<"/", "foo">>)

C6Witness ==
    /\ et_pc = "done"
    /\ et_path = <<"~", "foo">>
    /\ et_home = Some(<<"/", "home", "alice">>)
    /\ et_result = Some(<<"/", "home", "alice", "foo">>)

====
